---- MODULE Spec2Model ----
(***************************************************************************)
(* Model of the room2.5 raycasting engine: the tile map (Map.ts), the      *)
(* texture store and the renderer (TextureManager / Renderer) and the      *)
(* frame loop of the startdown demo (index.ts).                            *)
(*                                                                         *)
(* Numbers.  World coordinates are integers.  Math.cos / Math.sin are the  *)
(* fixed-point table SinTab (TrigScale = 10000, angles in whole degrees,   *)
(* multiples of AngleStep); a sample point is kept as its numerator over   *)
(* TrigScale * TILE_SIZE, so Math.floor is an exact integer floor.         *)
(* MAX_RAY_DISTANCE is kept in units of 1 / DistDen so that non-integer    *)
(* values are covered.  Time is kept in units of 1 / TimeDen ms so that    *)
(* 1000 / FPS is an exact number of units.                                 *)
(***************************************************************************)
EXTENDS Integers, Sequences, FiniteSets, TLC

VARIABLES
    \* ---- Map (src/core/engine/Map.ts)
    tileDefinitions,   \* Map.tileDefinitions: type code -> TileDefinition
    tiles,             \* Map.tiles: rows of Tile
    mapData,           \* the grid of type codes handed to the constructor
    builtDefs,         \* tileDefinitions as they were when initializeTiles ran
    mapPc,             \* "constructing" | "built"
    regCount,          \* number of registerTileDefinition calls so far
    q,                 \* the last query made on the map and its result
    items,             \* Map.items
    floorTexture,      \* Map.floorTexture
    ceilingTexture,    \* Map.ceilingTexture
    \* ---- Renderer (src/unnamed/part_000, class Renderer) and the viewer
    TILE_SIZE,         \* Renderer.TILE_SIZE
    MAX_RAY_DISTANCE,  \* Renderer.MAX_RAY_DISTANCE, in units of 1 / DistDen
    NUM_RAYS,          \* Renderer.NUM_RAYS
    FOV,               \* Renderer.FOV, in degrees
    PROJECTION_PLANE_DISTANCE,  \* Renderer.PROJECTION_PLANE_DISTANCE
    canvasHeight,      \* Renderer.canvas.height
    player,            \* the viewer pose [x, y, angle], angle in degrees
    renderPc,          \* "idle" | "ray" | "march" | "column" | "done"
    i,                 \* render's column index
    rayAngle,          \* castRay's argument, in degrees
    distance,          \* castRay's local distance
    hit,               \* castRay's local hit
    hitX,              \* castRay's local hitX, numerator over TrigScale * TILE_SIZE
    hitY,              \* castRay's local hitY, numerator over TrigScale * TILE_SIZE
    hitTile,           \* castRay's local hitTile
    column,            \* what render did for the latest column it finished
    wallCols,          \* the columns of this frame in which wall pixels were written
    \* ---- TextureManager and Renderer.getWallColor (src/unnamed/part_000)
    textureData,       \* TextureManager.textureData: name -> ImageData
    DEFAULT_FOG_COLOR, \* Renderer.DEFAULT_FOG_COLOR
    call,              \* the last getTextureColor / getWallColor call and its result
    \* ---- the frame loop (src/demos/startdown/index.ts)
    lastFrame,         \* lastFrame, in units of 1 / TimeDen ms
    now,               \* the timestamp of the latest tick, same units
    tickNo,            \* number of ticks so far
    elapsed,           \* now - lastFrame as the latest tick saw it
    rendered,          \* whether the latest tick called render
    renderCount,       \* number of render calls so far
    renderGap,         \* elapsed, as seen by the tick of the latest render
    renderAt,          \* the timestamp of the tick of the latest render
    \* ---- texture loading at start-up (Map.registerTileDefinition, createTexture)
    pending,           \* texture names whose image load has not called onload yet
    missed,            \* texture names a render sampled while their load was pending
    \* ---- Player (src/core/entities/Player.ts and src/unnamed/part_000)
    ent,               \* the Player's fields x, y, angle, speed, baseSpeed, sprintSpeed
    pressedKeys,       \* Player.pressedKeys (part_000 only)
    move,              \* the latest moveForward / moveBackward and whether it was accepted
    keyEvents          \* the key events and movement ticks the Player has handled

mapVars == <<tileDefinitions, tiles, mapData, builtDefs, mapPc, regCount, q,
             items, floorTexture, ceilingTexture>>
rendererVars == <<TILE_SIZE, MAX_RAY_DISTANCE, NUM_RAYS, FOV, PROJECTION_PLANE_DISTANCE,
                  canvasHeight>>
rayVars == <<player, renderPc, i, rayAngle, distance, hit, hitX, hitY, hitTile,
             column, wallCols>>

colorVars == <<textureData, DEFAULT_FOG_COLOR, call>>
loopVars == <<lastFrame, now, tickNo, elapsed, rendered, renderCount, renderGap, renderAt>>
loadVars == <<pending, missed>>
entVars == <<ent, pressedKeys, move, keyEvents>>

vars == <<mapVars, rendererVars, rayVars, colorVars, loopVars, loadVars, entVars>>

----------------------------------------------------------------------------
(* Bounds of the model *)

MaxTypeCode == 2      \* type codes that may be registered: 0 .. MaxTypeCode
MaxItems == 1         \* items added to one map
MaxRegister == 2      \* registerTileDefinition calls in one behaviour
MaxCoord == 2         \* queries use coordinates in -1 .. MaxCoord

----------------------------------------------------------------------------
(* Map.ts *)

\* JavaScript's undefined (a missing array element, a missing property)
Undefined == [undefined |-> TRUE]

TypeCodes == 0 .. MaxTypeCode

\* TileDefinition values a level may register for a type code
TileDefinitionsFor(type) ==
    { [type |-> type, name |-> "wall", texture |-> "wall", isSolid |-> TRUE],
      [type |-> type, name |-> "floor", texture |-> "grass", isSolid |-> FALSE] }

\* the two definitions Level1 registers
Level1Definitions ==
    [t \in {1, 2} |->
        IF t = 1
        THEN [type |-> 1, name |-> "wall", texture |-> "wall", isSolid |-> TRUE]
        ELSE [type |-> 2, name |-> "inside_wall", texture |-> "wall_blue", isSolid |-> TRUE]]

\* grids handed to the constructor: empty, one empty row, square, bordered,
\* ragged, and one using a type code nobody can register
MapDatas ==
    { << >>,
      << << >> >>,
      << <<1, 0>>, <<0, 2>> >>,
      << <<1, 1, 1>>, <<1, 0, 1>>, <<1, 1, 1>> >>,
      << <<1>>, <<0, 1, 2>> >>,
      << <<0, 9>>, <<2, 1>> >> }

\* this.tileDefinitions[type]
LookupDefinition(defs, type) ==
    IF type \in DOMAIN defs THEN defs[type] ELSE Undefined

\* the tile createTile makes when no definition is found
DefaultTileUntextured == [type |-> 0, name |-> "empty", isSolid |-> FALSE]

DefaultTile == [type |-> 0, name |-> "empty", isSolid |-> FALSE, texture |-> "empty"]

createTileSolidFallback(defs, type) ==
    LET definition == LookupDefinition(defs, type)
    IN  IF definition = Undefined
        THEN [type |-> 0, name |-> "empty", isSolid |-> TRUE, texture |-> "empty"]
        ELSE definition

createTile(defs, type) ==
    LET definition == LookupDefinition(defs, type)
    IN  IF definition = Undefined THEN DefaultTile ELSE definition

initializeTiles(defs, data) ==
    [r \in 1 .. Len(data) |-> [c \in 1 .. Len(data[r]) |-> createTile(defs, data[r][c])]]

\* this.tiles[y]?.[x] for integers x, y
getTile(t, x, y) ==
    IF y \in 0 .. Len(t) - 1
    THEN IF x \in 0 .. Len(t[y + 1]) - 1 THEN t[y + 1][x + 1] ELSE Undefined
    ELSE Undefined

\* tile?.isSolid ?? true
isSolidOpenOutside(t, x, y) ==
    LET tile == getTile(t, x, y)
    IN  IF tile = Undefined THEN FALSE ELSE tile.isSolid

isSolid(t, x, y) ==
    LET tile == getTile(t, x, y)
    IN  IF tile = Undefined THEN TRUE ELSE tile.isSolid

NoQuery == [op |-> "none", x |-> 0, y |-> 0, tile |-> Undefined, solid |-> FALSE]

MapInit ==
    /\ tileDefinitions = [t \in {} |-> Undefined]
    /\ tiles = << >>
    /\ mapData = << >>
    /\ builtDefs = [t \in {} |-> Undefined]
    /\ mapPc = "constructing"
    /\ regCount = 0
    /\ q = NoQuery
    /\ items = << >>
    /\ floorTexture = "#525252"
    /\ ceilingTexture = "#999"

\* this.tiles as registerTileDefinition(type, definition) leaves it: the
\* table entry is replaced, the tile objects the grid holds are not touched
tilesAfterRegisterInPlace(t, data, type, definition) ==
    [r \in 1 .. Len(t) |->
        [c \in 1 .. Len(t[r]) |-> IF data[r][c] = type THEN definition ELSE t[r][c]]]

tilesAfterRegister(t, data, type, definition) == t

\* registerTileDefinition(type, definition): during initializeTileDefinitions
\* inside the constructor, or later (Level1 calls it again after super())
RegisterTileDefinition(type, definition) ==
    /\ regCount < MaxRegister
    /\ tileDefinitions' =
          [t \in DOMAIN tileDefinitions \cup {type} |->
              IF t = type THEN definition ELSE tileDefinitions[t]]
    /\ regCount' = regCount + 1
    /\ tiles' = tilesAfterRegister(tiles, mapData, type, definition)
    /\ UNCHANGED <<mapData, builtDefs, mapPc, q, items, floorTexture, ceilingTexture>>
    /\ UNCHANGED <<rendererVars, rayVars, colorVars, loopVars, loadVars, entVars>>

\* the end of the constructor: this.tiles = this.initializeTiles(mapData)
Construct(data) ==
    /\ mapPc = "constructing"
    /\ mapData' = data
    /\ tiles' = initializeTiles(tileDefinitions, data)
    /\ builtDefs' = tileDefinitions
    /\ mapPc' = "built"
    /\ UNCHANGED <<tileDefinitions, regCount, q, items, floorTexture, ceilingTexture>>
    /\ UNCHANGED <<rendererVars, rayVars, colorVars, loopVars, loadVars, entVars>>

GetTile(x, y) ==
    /\ mapPc = "built"
    /\ q' = [op |-> "getTile", x |-> x, y |-> y, tile |-> getTile(tiles, x, y),
             solid |-> FALSE]
    /\ UNCHANGED <<tileDefinitions, tiles, mapData, builtDefs, mapPc, regCount, items,
                   floorTexture, ceilingTexture>>
    /\ UNCHANGED <<rendererVars, rayVars, colorVars, loopVars, loadVars, entVars>>

IsSolid(x, y) ==
    /\ mapPc = "built"
    /\ q' = [op |-> "isSolid", x |-> x, y |-> y, tile |-> Undefined,
             solid |-> isSolid(tiles, x, y)]
    /\ UNCHANGED <<tileDefinitions, tiles, mapData, builtDefs, mapPc, regCount, items,
                   floorTexture, ceilingTexture>>
    /\ UNCHANGED <<rendererVars, rayVars, colorVars, loopVars, loadVars, entVars>>

\* addItem(item)
AddItem(item) ==
    /\ mapPc = "built"
    /\ Len(items) < MaxItems
    /\ items' = Append(items, item)
    /\ UNCHANGED <<tileDefinitions, tiles, mapData, builtDefs, mapPc, regCount, q,
                   floorTexture, ceilingTexture>>
    /\ UNCHANGED <<rendererVars, rayVars, colorVars, loopVars, loadVars, entVars>>

\* the item of Level1's commented-out addItem call
Items ==
    { [type |-> "health", x |-> 2, y |-> 2, texture |-> "health_pack",
       isCollectible |-> TRUE] }

Coords == -1 .. MaxCoord

MapNext ==
    \/ \E type \in TypeCodes : \E d \in TileDefinitionsFor(type) :
          RegisterTileDefinition(type, d)
    \/ \E data \in MapDatas : Construct(data)
    \/ \E x \in Coords, y \in Coords : GetTile(x, y)
    \/ \E x \in Coords, y \in Coords : IsSolid(x, y)

\* the coordinates queried between the registrations and addItem calls of a
\* level that also holds items: one outside the grid, one inside
ItemCoords == {0 - 1, 1}

MapItemsNext ==
    \/ \E type \in TypeCodes : \E d \in TileDefinitionsFor(type) :
          RegisterTileDefinition(type, d)
    \/ \E data \in MapDatas : Construct(data)
    \/ \E x \in ItemCoords, y \in ItemCoords : GetTile(x, y)
    \/ \E x \in ItemCoords, y \in ItemCoords : IsSolid(x, y)
    \/ \E item \in Items : AddItem(item)

----------------------------------------------------------------------------
(* Renderer.castRay and the column loop of Renderer.render *)

\* denominator of the fixed-point cosines and sines
TrigScale == 10000
\* angles are whole degrees, multiples of AngleStep
AngleStep == 3
\* MAX_RAY_DISTANCE is counted in units of 1 / DistDen
DistDen == 2

\* TrigScale * sin(a) for a = 0, 3, ..., 90 degrees
SinTab ==
    << 0, 523, 1045, 1564, 2079, 2588, 3090, 3584, 4067, 4540, 5000, 5446,
       5878, 6293, 6691, 7071, 7431, 7771, 8090, 8387, 8660, 8910, 9135,
       9336, 9511, 9659, 9781, 9877, 9945, 9986, 10000 >>

\* Math.sin, for an angle in degrees (unbounded, reduced modulo 360)
Sin(a) ==
    LET n == a % 360
    IN  IF n <= 90 THEN SinTab[n \div AngleStep + 1]
        ELSE IF n <= 180 THEN SinTab[(180 - n) \div AngleStep + 1]
        ELSE IF n <= 270 THEN 0 - SinTab[(n - 180) \div AngleStep + 1]
        ELSE 0 - SinTab[(360 - n) \div AngleStep + 1]

\* Math.cos
Cos(a) == Sin(a + 90)

\* JavaScript's null (castRay's hitTile before a hit)
Null == [null |-> TRUE]

\* (player.x + cos * d) / TILE_SIZE and (player.y + sin * d) / TILE_SIZE,
\* as numerators over TrigScale * TILE_SIZE
SampleX(p, a, d) == p.x * TrigScale + Cos(a) * d
SampleY(p, a, d) == p.y * TrigScale + Sin(a) * d

\* Math.floor of such a quotient
FloorCell(num, tileSize) == num \div (TrigScale * tileSize)

\* the test of castRay's sample: map.getTile(testX, testY), then tile?.isSolid
SampleHitsIsSolid(t, x, y) == isSolid(t, x, y)

SampleHits(t, x, y) ==
    LET tile == getTile(t, x, y)
    IN  IF tile = Undefined THEN FALSE ELSE tile.isSolid

\* distance += 1
NextDistanceDouble(d) == d + 2

NextDistance(d) == d + 1

\* the loop condition: !hit && distance < this.MAX_RAY_DISTANCE
MarchOnInclusive(h, d, maxd) == ~h /\ d * DistDen <= maxd
MarchOnUnlimited(h, d, maxd) == ~h

MarchOn(h, d, maxd) == ~h /\ d * DistDen < maxd

\* const rayAngle = player.angle - FOV / 2 + (i / NUM_RAYS) * FOV
RayAngle(p, fov, k, n) == p.angle - fov \div 2 + (k * fov) \div n

Bordered4 == << <<1, 1, 1, 1>>, <<1, 0, 0, 1>>, <<1, 0, 0, 1>>, <<1, 1, 1, 1>> >>

AllAngles == { 15 * k : k \in 0 .. 23 }

\* the scenes a render is run on: grid, tile size, max ray distance (in
\* 1 / DistDen), ray count, canvas heights, viewer positions and viewer angles
Scenes ==
    { [data |-> Bordered4, tileSize |-> 64, maxDist |-> {2000}, numRays |-> 10,
       heights |-> {108},
       starts |-> {<<128, 128>>, <<96, 96>>}, angles |-> AllAngles],
      [data |-> << <<1, 1, 1>>, <<1, 0, 1>>, <<1, 1, 1>> >>, tileSize |-> 1,
       maxDist |-> {10}, numRays |-> 4, heights |-> {7, 108},
       starts |-> {<<1, 1>>}, angles |-> AllAngles],
      [data |-> << <<1, 2, 1, 1>>, <<1, 0, 0, 2>>, <<1, 1, 2, 1>> >>, tileSize |-> 4,
       maxDist |-> {45}, numRays |-> 5, heights |-> {108},
       starts |-> {<<4, 4>>, <<7, 7>>, <<11, 5>>}, angles |-> AllAngles],
      [data |-> << >>, tileSize |-> 64, maxDist |-> {0, 5, 6}, numRays |-> 2,
       heights |-> {108},
       starts |-> {<<0, 0>>, <<96, 96>>}, angles |-> {0, 45, 180, 270}],
      [data |-> << <<1, 1, 1>>, <<1, 0, 0>>, <<1, 1, 1>> >>, tileSize |-> 4,
       maxDist |-> {24, 25}, numRays |-> 2, heights |-> {0, 108},
       starts |-> {<<6, 6>>}, angles |-> {0, 30, 90, 180}] }

\* the 0.0001 of distance + 0.0001 is 1 / EpsilonDen
EpsilonDen == 10000

\* wallHeight = (TILE_SIZE * PROJECTION_PLANE_DISTANCE) / (distance + 0.0001),
\* as a numerator and a denominator
WallHeightNum(tileSize, ppd) == tileSize * ppd * EpsilonDen
WallHeightDen(d) == d * EpsilonDen + 1

\* Math.floor((canvas.height - wallHeight) / 2)
DrawStart(h, tileSize, ppd, d) ==
    (h * WallHeightDen(d) - WallHeightNum(tileSize, ppd)) \div (2 * WallHeightDen(d))

\* Math.floor((canvas.height + wallHeight) / 2)
DrawEnd(h, tileSize, ppd, d) ==
    (h * WallHeightDen(d) + WallHeightNum(tileSize, ppd)) \div (2 * WallHeightDen(d))

\* const d = y - this.canvas.height / 2 + wallHeight / 2 and
\* const textureY = Math.floor(d * this.TILE_SIZE / wallHeight): with wallHeight
\* = N / D, d * TILE_SIZE / wallHeight is ((2y - h) * D + N) * TILE_SIZE / (2N),
\* and N = TILE_SIZE * ppd * EpsilonDen lets TILE_SIZE cancel
TextureYFromMiddle(y, h, tileSize, ppd, d) ==
    ((2 * y - h) * WallHeightDen(d)) \div (2 * ppd * EpsilonDen)

TextureY(y, h, tileSize, ppd, d) ==
    ((2 * y - h) * WallHeightDen(d) + WallHeightNum(tileSize, ppd))
        \div (2 * ppd * EpsilonDen)

\* Math.abs
Abs(v) == IF v < 0 THEN 0 - v ELSE v

\* Math.abs(h - Math.floor(h + 0.5)), for h a numerator over TrigScale * tileSize
RoundDist(h, tileSize) ==
    LET D == TrigScale * tileSize
    IN  Abs(h - D * ((2 * h + D) \div (2 * D)))

\* h - Math.floor(h), as a numerator over TrigScale * tileSize
Frac(h, tileSize) ==
    LET D == TrigScale * tileSize
    IN  h - D * (h \div D)

\* the choice of wallX between the two hit coordinates
WallXSwapped(hx, hy, tileSize) ==
    IF RoundDist(hx, tileSize) > RoundDist(hy, tileSize)
    THEN Frac(hy, tileSize)
    ELSE Frac(hx, tileSize)

WallX(hx, hy, tileSize) ==
    IF RoundDist(hx, tileSize) > RoundDist(hy, tileSize)
    THEN Frac(hx, tileSize)
    ELSE Frac(hy, tileSize)

\* const textureX = Math.floor(wallX * this.TILE_SIZE)
TextureX(hx, hy, tileSize) == (WallX(hx, hy, tileSize) * tileSize) \div (TrigScale * tileSize)

\* if (tile): the column gets a wall slab
DrawsWallWhenMarched(tile) == tile # Null \/ distance >= 1

DrawsWall(tile) == tile # Null

\* let distance = 0 at the top of castRay
InitialDistanceKept == distance

InitialDistance == 0

\* no column drawn yet in this frame
NoColumn ==
    [i |-> 0 - 1, wall |-> FALSE, textureX |-> 0, drawStart |-> 0, drawEnd |-> 0,
     textureY |-> << >>]

RayIdle ==
    /\ renderPc = "idle"
    /\ i = 0
    /\ rayAngle = 0
    /\ distance = 0
    /\ hit = FALSE
    /\ hitX = 0
    /\ hitY = 0
    /\ hitTile = Null
    /\ column = NoColumn
    /\ wallCols = {}

\* a Level1-style map built from the scene's grid, a Renderer configured for
\* it, and the viewer placed in it
RayInit ==
    \E sc \in Scenes : \E md \in sc.maxDist : \E st \in sc.starts : \E a \in sc.angles :
      \E ch \in sc.heights :
        /\ items = << >>
        /\ floorTexture = "#525252"
        /\ ceilingTexture = "#999"
        /\ PROJECTION_PLANE_DISTANCE = 64 * 4
        /\ canvasHeight = ch
        /\ tileDefinitions = Level1Definitions
        /\ builtDefs = Level1Definitions
        /\ mapData = sc.data
        /\ tiles = initializeTiles(Level1Definitions, sc.data)
        /\ mapPc = "built"
        /\ regCount = 2
        /\ q = NoQuery
        /\ TILE_SIZE = sc.tileSize
        /\ MAX_RAY_DISTANCE = md
        /\ NUM_RAYS = sc.numRays
        /\ FOV = 60
        /\ player = [x |-> st[1], y |-> st[2], angle |-> a]
        /\ RayIdle

\* render(player, map): up to the column loop
RenderBegin ==
    /\ renderPc \in {"idle", "done"}
    /\ renderPc' = "ray"
    /\ i' = 0
    /\ column' = NoColumn
    /\ wallCols' = {}
    /\ UNCHANGED <<mapVars, rendererVars, colorVars, loopVars, loadVars, entVars, player, rayAngle, distance, hit, hitX, hitY, hitTile>>

\* for (let i = 0; i < NUM_RAYS; i++): the call this.castRay(rayAngle, player, map)
CastRayBegin ==
    /\ renderPc = "ray"
    /\ i < NUM_RAYS
    /\ rayAngle' = RayAngle(player, FOV, i, NUM_RAYS)
    /\ distance' = InitialDistance
    /\ hit' = FALSE
    /\ hitX' = 0
    /\ hitY' = 0
    /\ hitTile' = Null
    /\ renderPc' = "march"
    /\ UNCHANGED <<mapVars, rendererVars, colorVars, loopVars, loadVars, entVars, player, i,
                   column, wallCols>>

\* one turn of castRay's while loop
March ==
    /\ renderPc = "march"
    /\ MarchOn(hit, distance, MAX_RAY_DISTANCE)
    /\ LET d == NextDistance(distance)
           hx == SampleX(player, rayAngle, d)
           hy == SampleY(player, rayAngle, d)
           testX == FloorCell(hx, TILE_SIZE)
           testY == FloorCell(hy, TILE_SIZE)
           h == SampleHits(tiles, testX, testY)
       IN  /\ distance' = d
           /\ hitX' = hx
           /\ hitY' = hy
           /\ hit' = h
           /\ hitTile' = IF h THEN getTile(tiles, testX, testY) ELSE hitTile
    /\ UNCHANGED <<mapVars, rendererVars, colorVars, loopVars, loadVars, entVars, player, renderPc, i, rayAngle,
                   column, wallCols>>

\* castRay's return { distance, hitX, hitY, tile: hitTile }
CastRayReturn ==
    /\ renderPc = "march"
    /\ ~MarchOn(hit, distance, MAX_RAY_DISTANCE)
    /\ renderPc' = "column"
    /\ UNCHANGED <<mapVars, rendererVars, colorVars, loopVars, loadVars, entVars, player, i,
                   rayAngle, distance, hit, hitX, hitY, hitTile, column, wallCols>>

\* the rest of the loop body for column i: the wall slab when the ray
\* returned a tile, one fillRect(i, y, 1, 1) for each y of drawStart ..
\* drawEnd - 1 with the texture row textureY[y] handed to getWallColor, then
\* i++
DrawColumn ==
    /\ renderPc = "column"
    /\ i' = i + 1
    /\ renderPc' = "ray"
    /\ LET ds == DrawStart(canvasHeight, TILE_SIZE, PROJECTION_PLANE_DISTANCE, distance)
           de == DrawEnd(canvasHeight, TILE_SIZE, PROJECTION_PLANE_DISTANCE, distance)
       IN  IF DrawsWall(hitTile)
           THEN /\ column' = [i |-> i, wall |-> TRUE,
                              textureX |-> TextureX(hitX, hitY, TILE_SIZE),
                              drawStart |-> ds, drawEnd |-> de,
                              textureY |->
                                  [y \in ds .. de - 1 |->
                                      TextureY(y, canvasHeight, TILE_SIZE,
                                               PROJECTION_PLANE_DISTANCE, distance)]]
                /\ wallCols' = IF ds < de THEN wallCols \cup {i} ELSE wallCols
           ELSE /\ column' = [i |-> i, wall |-> FALSE, textureX |-> 0,
                              drawStart |-> ds, drawEnd |-> de, textureY |-> << >>]
                /\ wallCols' = wallCols
    /\ UNCHANGED <<mapVars, rendererVars, colorVars, loopVars, loadVars, entVars, player, rayAngle, distance, hit, hitX, hitY, hitTile>>

\* the loop ends and render returns
RenderEnd ==
    /\ renderPc = "ray"
    /\ i >= NUM_RAYS
    /\ renderPc' = "done"
    /\ UNCHANGED <<mapVars, rendererVars, colorVars, loopVars, loadVars, entVars, player, i,
                   rayAngle, distance, hit, hitX, hitY, hitTile, column, wallCols>>

RayNext ==
    \/ RenderBegin
    \/ CastRayBegin
    \/ March
    \/ CastRayReturn
    \/ DrawColumn
    \/ RenderEnd

RendererIdle ==
    /\ TILE_SIZE = 64
    /\ MAX_RAY_DISTANCE = 1000 * DistDen
    /\ NUM_RAYS = 192
    /\ FOV = 60
    /\ PROJECTION_PLANE_DISTANCE = 64 * 4
    /\ canvasHeight = 108
    /\ player = [x |-> 96, y |-> 96, angle |-> 0]
    /\ RayIdle

----------------------------------------------------------------------------
(* TextureManager.getTextureColor and Renderer.getWallColor *)

MaxTexDim == 2        \* textures are 1 .. MaxTexDim pixels wide and high

Max(a, b) == IF a >= b THEN a ELSE b
Min(a, b) == IF a <= b THEN a ELSE b

\* the red, green and blue bytes of the pixel at (px, py) of a loaded image:
\* every pixel of a texture has a colour of its own
PixelColor(px, py) == <<40 + 50 * px, 40 + 50 * py, 200>>

\* ctx.getImageData(0, 0, img.width, img.height): RGBA bytes, row-major
ImageData(w, h) ==
    [width |-> w, height |-> h,
     data |-> [k \in 1 .. w * h * 4 |->
                 LET p == (k - 1) \div 4
                     c == (k - 1) % 4
                 IN  IF c = 3 THEN 255 ELSE PixelColor(p % w, p \div w)[c + 1]]]

\* textureData.data[index]: a byte, or undefined (here -1) outside the buffer
DataAt(data, index) ==
    IF index + 1 \in DOMAIN data THEN data[index + 1] ELSE 0 - 1

\* the strings the code builds: "#ffffff", `rgb(${r}, ${g}, ${b})` and
\* `rgb(${r},${g},${b})`
HexWhite == [fmt |-> "#ffffff", r |-> 255, g |-> 255, b |-> 255]
RgbSpaced(r, g, b) == [fmt |-> "rgb(r, g, b)", r |-> r, g |-> g, b |-> b]
RgbTight(r, g, b) == [fmt |-> "rgb(r,g,b)", r |-> r, g |-> g, b |-> b]

\* Math.max(0, Math.min(v, size - 1))
ClampCoordToSize(v, size) == Max(0, Min(v, size))

ClampCoord(v, size) == Max(0, Min(v, size - 1))

\* getTextureColor(name, x, y): the string returned, with the index computed
getTextureColor(td, name, x, y) ==
    IF name \notin DOMAIN td
    THEN [loaded |-> FALSE, index |-> 0, color |-> HexWhite]
    ELSE LET t == td[name]
             cx == ClampCoord(x, t.width)
             cy == ClampCoord(y, t.height)
             index == (cy * t.width + cx) * 4
         IN  [loaded |-> TRUE, index |-> index,
              color |-> RgbSpaced(DataAt(t.data, index), DataAt(t.data, index + 1),
                                  DataAt(t.data, index + 2))]

\* baseColor.match(/rgb\((\d+),\s*(\d+),\s*(\d+)\)/) and the three parseInt,
\* with r = g = b = 255 when there is no match
ParseRgb(c) ==
    IF c.fmt \in {"rgb(r, g, b)", "rgb(r,g,b)"} /\ c.r >= 0 /\ c.g >= 0 /\ c.b >= 0
    THEN <<c.r, c.g, c.b>>
    ELSE <<255, 255, 255>>

fogStart == 300
fogEnd == 700

\* fogFactor = Math.max(0, Math.min(1, (distance - fogStart) / (fogEnd - fogStart))),
\* as its numerator over fogEnd - fogStart
FogFactorOfMaxDistance(d, maxd) ==
    Max(0, Min(fogEnd - fogStart, (d * DistDen * (fogEnd - fogStart)) \div maxd))

FogFactor(d, maxd) == Max(0, Min(fogEnd - fogStart, d - fogStart))

\* Math.round(c * (1 - fogFactor) + f * fogFactor)
Blend(c, f, n) ==
    (2 * (c * (fogEnd - fogStart - n) + f * n) + (fogEnd - fogStart))
        \div (2 * (fogEnd - fogStart))

\* getWallColor(tile, textureX, textureY, map, distance)
getWallColor(tile, textureX, textureY, td, fog, d, maxd) ==
    IF tile.texture = ""
    THEN [sampled |-> FALSE, base |-> HexWhite, fogFactor |-> 0, color |-> HexWhite]
    ELSE LET baseColor == getTextureColor(td, tile.name, textureX, textureY).color
             rgb == ParseRgb(baseColor)
             n == FogFactor(d, maxd)
         IN  [sampled |-> TRUE, base |-> baseColor, fogFactor |-> n,
              color |-> RgbTight(Blend(rgb[1], fog.r, n), Blend(rgb[2], fog.g, n),
                                 Blend(rgb[3], fog.b, n))]

NoCall == [op |-> "none"]

ColorIdle ==
    /\ textureData = [n \in {} |-> Undefined]
    /\ DEFAULT_FOG_COLOR = [r |-> 7, g |-> 7, b |-> 7]
    /\ call = NoCall

\* a texture store holding the decoded image of "wall", and a Renderer with
\* the default or a custom fog colour and max ray distance
ColorInit ==
    /\ MapInit
    /\ RayIdle
    /\ TILE_SIZE = 64
    /\ NUM_RAYS = 192
    /\ FOV = 60
    /\ PROJECTION_PLANE_DISTANCE = 64 * 4
    /\ canvasHeight = 108
    /\ player = [x |-> 96, y |-> 96, angle |-> 0]
    /\ \E w \in 1 .. MaxTexDim, h \in 1 .. MaxTexDim :
          textureData = [n \in {"wall"} |-> ImageData(w, h)]
    /\ DEFAULT_FOG_COLOR \in {[r |-> 7, g |-> 7, b |-> 7], [r |-> 200, g |-> 100, b |-> 0]}
    /\ MAX_RAY_DISTANCE \in {1000 * DistDen, 500 * DistDen, 2001}
    /\ call = NoCall

GetTextureColor(name, x, y) ==
    /\ call' = [op |-> "getTextureColor", name |-> name, x |-> x, y |-> y,
                res |-> getTextureColor(textureData, name, x, y)]
    /\ UNCHANGED <<textureData, DEFAULT_FOG_COLOR>>
    /\ UNCHANGED <<mapVars, rendererVars, rayVars, loopVars, loadVars, entVars>>

GetWallColor(tile, textureX, textureY, d) ==
    /\ d * DistDen < MAX_RAY_DISTANCE + DistDen
    /\ call' = [op |-> "getWallColor", tile |-> tile, x |-> textureX, y |-> textureY,
                distance |-> d,
                res |-> getWallColor(tile, textureX, textureY, textureData,
                                     DEFAULT_FOG_COLOR, d, MAX_RAY_DISTANCE)]
    /\ UNCHANGED <<textureData, DEFAULT_FOG_COLOR>>
    /\ UNCHANGED <<mapVars, rendererVars, rayVars, loopVars, loadVars, entVars>>

TexCoords == -1 .. MaxTexDim

\* solid tiles a ray can return: one whose texture is loaded, one whose
\* texture is not, and one registered with an empty texture name
WallTiles ==
    { [type |-> 1, name |-> "wall", texture |-> "wall", isSolid |-> TRUE],
      [type |-> 2, name |-> "inside_wall", texture |-> "wall_blue", isSolid |-> TRUE],
      [type |-> 1, name |-> "wall", texture |-> "", isSolid |-> TRUE] }

FogDistances == {1, 299, 300, 301, 500, 699, 700, 701, 1000}

ColorNext ==
    \/ \E name \in {"wall", "sky"} : \E x \in TexCoords, y \in TexCoords :
          GetTextureColor(name, x, y)
    \/ \E tile \in WallTiles : \E x \in {0 - 1, 0, 1}, y \in {0, 1} : \E d \in FogDistances :
          GetWallColor(tile, x, y, d)

----------------------------------------------------------------------------
(* gameLoop of the startdown demo *)

MaxTicks == 5         \* animation ticks in one behaviour

\* timestamps are counted in units of 1 / TimeDen ms
TimeDen == 3
FPS == 30

\* now - lastFrame > 1000 / FPS
ShouldRenderInclusive(t, lf) == (t - lf) * FPS >= 1000 * TimeDen

ShouldRender(t, lf) == (t - lf) * FPS > 1000 * TimeDen

\* lastFrame = now
NextLastFrameAccumulate(t, lf) == lf + (1000 * TimeDen) \div FPS

NextLastFrame(t, lf) == t

LoopIdle ==
    /\ lastFrame = 0
    /\ now = 0
    /\ tickNo = 0
    /\ elapsed = 0
    /\ rendered = FALSE
    /\ renderCount = 0
    /\ renderGap = 0
    /\ renderAt = 0

\* no texture load in flight and no Player constructed
LoadIdle ==
    /\ pending = {}
    /\ missed = {}

NoMove == [dir |-> "none", accepted |-> FALSE, fromX |-> 0, fromY |-> 0]

EntIdle ==
    /\ ent = Null
    /\ pressedKeys = {}
    /\ move = NoMove
    /\ keyEvents = 0

\* gameLoop(now): one animation tick with timestamp t
TickLoop(t) ==
    /\ tickNo < MaxTicks
    /\ t >= now
    /\ now' = t
    /\ tickNo' = tickNo + 1
    /\ elapsed' = t - lastFrame
    /\ IF ShouldRender(t, lastFrame)
       THEN /\ rendered' = TRUE
            /\ renderCount' = renderCount + 1
            /\ renderGap' = t - lastFrame
            /\ renderAt' = t
            /\ lastFrame' = NextLastFrame(t, lastFrame)
       ELSE /\ rendered' = FALSE
            /\ UNCHANGED <<renderCount, renderGap, renderAt, lastFrame>>

Tick(t) ==
    /\ TickLoop(t)
    /\ UNCHANGED <<mapVars, rendererVars, rayVars, colorVars, loadVars, entVars>>

\* time between two ticks, in units of 1 / TimeDen ms
TickDeltas == {0, 1, 40, 99, 100, 101, 250}

LoopNext == \E dt \in TickDeltas : Tick(now + dt)

----------------------------------------------------------------------------
(* Start-up of the startdown demo: texture loads and animation ticks *)

\* castRay(rayAngle, player, map) as one call: the value it returns
RECURSIVE castRay(_, _, _, _, _, _)
castRay(p, a, t, tileSize, maxd, r) ==
    IF MarchOn(r.tile # Null, r.distance, maxd)
    THEN LET d == NextDistance(r.distance)
             hx == SampleX(p, a, d)
             hy == SampleY(p, a, d)
             testX == FloorCell(hx, tileSize)
             testY == FloorCell(hy, tileSize)
         IN  castRay(p, a, t, tileSize, maxd,
                     [distance |-> d, hitX |-> hx, hitY |-> hy,
                      tile |-> IF SampleHits(t, testX, testY)
                               THEN getTile(t, testX, testY) ELSE Null])
    ELSE r

\* the texture names the wall pixels of one render(player, map) ask the
\* texture store for and do not find there
RenderMisses(p, t, td) ==
    { n \in {"wall", "inside_wall", "empty"} :
        \E k \in 0 .. NUM_RAYS - 1 :
            LET r == castRay(p, RayAngle(p, FOV, k, NUM_RAYS), t, TILE_SIZE,
                             MAX_RAY_DISTANCE,
                             [distance |-> InitialDistance, hitX |-> 0, hitY |-> 0,
                              tile |-> Null])
            IN  /\ DrawsWall(r.tile)
                /\ DrawStart(canvasHeight, TILE_SIZE, PROJECTION_PLANE_DISTANCE, r.distance)
                     < DrawEnd(canvasHeight, TILE_SIZE, PROJECTION_PLANE_DISTANCE, r.distance)
                /\ r.tile.name = n
                /\ getWallColor(r.tile, TextureX(r.hitX, r.hitY, TILE_SIZE), 0, td,
                                DEFAULT_FOG_COLOR, r.distance, MAX_RAY_DISTANCE).sampled
                /\ ~getTextureColor(td, n, TextureX(r.hitX, r.hitY, TILE_SIZE), 0).loaded }

\* the image loads new Level1() has started: registerTileDefinition runs
\* twice for each of the two definitions, once from Map's constructor and
\* once from Level1's, and each call starts a load
Level1Loads == {"wall", "inside_wall"} \X {1, 2}

\* the state index.ts leaves when its top-level code has run: the level is
\* built, the Player placed in it, the Renderer made, every load in flight and
\* the first animation tick requested
StartupInit ==
    /\ tileDefinitions = Level1Definitions
    /\ builtDefs = Level1Definitions
    /\ mapData = << <<1, 2, 1, 1>>, <<1, 0, 0, 2>>, <<1, 1, 2, 1>> >>
    /\ tiles = initializeTiles(Level1Definitions, mapData)
    /\ mapPc = "built"
    /\ regCount = 4
    /\ q = NoQuery
    /\ items = << >>
    /\ floorTexture = "#525252"
    /\ ceilingTexture = "#999"
    /\ TILE_SIZE = 4
    /\ MAX_RAY_DISTANCE = 45
    /\ NUM_RAYS = 5
    /\ FOV = 60
    /\ PROJECTION_PLANE_DISTANCE = 64 * 4
    /\ canvasHeight = 108
    /\ player \in {[x |-> 6, y |-> 6, angle |-> 0], [x |-> 6, y |-> 6, angle |-> 180]}
    /\ RayIdle
    /\ ColorIdle
    /\ LoopIdle
    /\ EntIdle
    /\ pending = Level1Loads
    /\ missed = {}

\* img.onload of one load: the decoded pixels are stored under the name
OnLoad(l) ==
    /\ l \in pending
    /\ pending' = pending \ {l}
    /\ textureData' = [n \in DOMAIN textureData \cup {l[1]} |-> ImageData(1, 1)]
    /\ UNCHANGED <<mapVars, rendererVars, rayVars, loopVars, entVars, missed,
                   DEFAULT_FOG_COLOR, call>>

\* img.onerror of one load: the promise is rejected and nothing is stored
OnError(l) ==
    /\ l \in pending
    /\ pending' = pending \ {l}
    /\ UNCHANGED <<mapVars, rendererVars, rayVars, colorVars, loopVars, entVars, missed>>

\* gameLoop(now) with the render call it makes
StartupTick(t) ==
    /\ TickLoop(t)
    /\ missed' = IF ShouldRender(t, lastFrame)
                 THEN missed \cup { n \in RenderMisses(player, tiles, textureData) :
                                      \E l \in pending : l[1] = n }
                 ELSE missed
    /\ UNCHANGED <<mapVars, rendererVars, rayVars, colorVars, entVars, pending>>

\* time between two ticks of the start-up, in units of 1 / TimeDen ms
StartupDeltas == {50, 101}

StartupNext ==
    \/ \E l \in Level1Loads : OnLoad(l)
    \/ \E l \in Level1Loads : OnError(l)
    \/ \E dt \in StartupDeltas : StartupTick(now + dt)

----------------------------------------------------------------------------
(* Player: src/core/entities/Player.ts, and the variant of src/unnamed/part_000 *)

MaxKeyEvents == 4     \* key events and movement ticks in one behaviour
MaxTurn == 16         \* the angle stays within -MaxTurn .. MaxTurn tenths of a radian

\* the Player's angle is counted in tenths of a radian (a key turns it by
\* 0.1); TrigScale * sin(0.1 k) and TrigScale * cos(0.1 k) for k = 0 .. 24
SinRadTab ==
    << 0, 998, 1987, 2955, 3894, 4794, 5646, 6442, 7174, 7833, 8415, 8912, 9320,
       9636, 9854, 9975, 9996, 9917, 9738, 9463, 9093, 8632, 8085, 7457, 6755 >>
CosRadTab ==
    << 10000, 9950, 9801, 9553, 9211, 8776, 8253, 7648, 6967, 6216, 5403, 4536,
       3624, 2675, 1700, 707, 0 - 292, 0 - 1288, 0 - 2272, 0 - 3233, 0 - 4161,
       0 - 5048, 0 - 5885, 0 - 6663, 0 - 7374 >>

\* Math.sin(this.angle) and Math.cos(this.angle)
SinRad(k) == IF k >= 0 THEN SinRadTab[k + 1] ELSE 0 - SinRadTab[1 - k]
CosRad(k) == IF k >= 0 THEN CosRadTab[k + 1] ELSE CosRadTab[1 - k]

\* TrigScale * sqrt(1/2), for the angles angle + PI / 4 and angle - PI / 4
SqrtHalf == 7071

\* speeds are counted in halves (baseSpeed 6.5 is 13) and positions in
\* units of 1 / PosDen
PosDen == 2 * TrigScale

\* Player.TILE_SIZE and Player.COLLISION_MARGIN
PLAYER_TILE_SIZE == 64
COLLISION_MARGIN == 3

\* the defaults of the class fields baseSpeed and sprintSpeed, in halves
PlayerDefaults == [baseSpeed |-> 13, sprintSpeed |-> 10]
TickPlayerDefaults == [baseSpeed |-> 20, sprintSpeed |-> 60]

\* options.f ?? fallback
OptionOr(options, f, fallback) == IF f \in DOMAIN options THEN options[f] ELSE fallback

\* the constructor: this.speed = this.baseSpeed comes before the options are
\* read into baseSpeed and sprintSpeed
NewPlayer(x, y, options, defaults) ==
    [x |-> x * PosDen, y |-> y * PosDen, angle |-> 0,
     speed |-> defaults.baseSpeed,
     baseSpeed |-> OptionOr(options, "baseSpeed", defaults.baseSpeed),
     sprintSpeed |-> OptionOr(options, "sprintSpeed", defaults.sprintSpeed),
     margin |-> OptionOr(options, "collisionMargin", COLLISION_MARGIN),
     hasMap |-> FALSE]

\* Math.floor(v / this.TILE_SIZE), for v in units of 1 / PosDen
TileOf(v) == v \div (PosDen * PLAYER_TILE_SIZE)

\* this.map.isSolid(tileX, tileY) for a point
PointSolid(t, px, py) == isSolid(t, TileOf(px), TileOf(py))

\* canMoveTo(newX, newY) of Player.ts: none of the four corners is solid
canMoveToCornersUnchecked(e, t, newX, newY) == e.hasMap

canMoveToCorners(e, t, newX, newY) ==
    /\ e.hasMap
    /\ ~\E dx \in {0 - 1, 1}, dy \in {0 - 1, 1} :
          PointSolid(t, newX + dx * COLLISION_MARGIN * PosDen,
                        newY + dy * COLLISION_MARGIN * PosDen)

\* canMoveTo(newX, newY) of part_000: no front point (at angle, angle + PI/4,
\* angle - PI/4) is solid, and the two side points (angle + PI/2, angle -
\* PI/2) are not both solid
canMoveToPoints(e, t, newX, newY) ==
    LET c == CosRad(e.angle)
        sn == SinRad(e.angle)
        m == e.margin * 2
        cPlus == ((c - sn) * SqrtHalf) \div TrigScale
        sPlus == ((sn + c) * SqrtHalf) \div TrigScale
        cMinus == ((c + sn) * SqrtHalf) \div TrigScale
        sMinus == ((sn - c) * SqrtHalf) \div TrigScale
        front == PointSolid(t, newX + c * m, newY + sn * m)
                 \/ PointSolid(t, newX + cPlus * m, newY + sPlus * m)
                 \/ PointSolid(t, newX + cMinus * m, newY + sMinus * m)
        leftCollision == PointSolid(t, newX - sn * m, newY + c * m)
        rightCollision == PointSolid(t, newX + sn * m, newY - c * m)
    IN  /\ e.hasMap
        /\ ~front
        /\ ~(leftCollision /\ rightCollision)

\* moveForward (sign 1) and moveBackward (sign -1): the Player afterwards
MoveBy(e, sign, ok) ==
    IF ok THEN [e EXCEPT !.x = e.x + sign * CosRad(e.angle) * e.speed,
                         !.y = e.y + sign * SinRad(e.angle) * e.speed]
    ELSE e

MoveOf(e, sign, ok) ==
    [dir |-> IF sign = 1 THEN "forward" ELSE "backward", accepted |-> ok,
     fromX |-> e.x, fromY |-> e.y]

NewX(e, sign) == e.x + sign * CosRad(e.angle) * e.speed
NewY(e, sign) == e.y + sign * SinRad(e.angle) * e.speed

\* a level with a wall block whose corner juts into the open cells
PlayerGrid == << <<1, 1, 1, 1>>, <<1, 0, 0, 1>>, <<1, 0, 1, 1>>, <<1, 1, 1, 1>> >>

\* where the Player is constructed, the angles earlier turns have left it
\* at, and the options given
PlayerStarts == {<<96, 96>>, <<120, 96>>, <<127, 139>>, <<96, 131>>, <<124, 124>>}
PlayerAngles == {0, 0 - 14, 8, 16}
PlayerOptions == {[mouseSensitivity |-> 1],
                  [mouseSensitivity |-> 1, baseSpeed |-> 20, sprintSpeed |-> 40]}

PlayerMapInit ==
    /\ tileDefinitions = Level1Definitions
    /\ builtDefs = Level1Definitions
    /\ mapData = PlayerGrid
    /\ tiles = initializeTiles(Level1Definitions, PlayerGrid)
    /\ mapPc = "built"
    /\ regCount = 4
    /\ q = NoQuery
    /\ items = << >>
    /\ floorTexture = "#525252"
    /\ ceilingTexture = "#999"

\* a Player of Player.ts, constructed in a level
PlayerInit ==
    /\ PlayerMapInit
    /\ \E st \in PlayerStarts, a \in PlayerAngles, o \in PlayerOptions :
          ent = [NewPlayer(st[1], st[2], o, PlayerDefaults) EXCEPT !.angle = a]
    /\ pressedKeys = {}
    /\ move = NoMove
    /\ keyEvents = 0

\* a Player of part_000, constructed in a level
TickPlayerInit ==
    /\ PlayerMapInit
    /\ \E st \in PlayerStarts, a \in PlayerAngles, o \in PlayerOptions :
          ent = [NewPlayer(st[1], st[2], o, TickPlayerDefaults) EXCEPT !.angle = a]
    /\ pressedKeys = {}
    /\ move = NoMove
    /\ keyEvents = 0

\* setMap(map)
SetMap ==
    /\ ~ent.hasMap
    /\ ent' = [ent EXCEPT !.hasMap = TRUE]
    /\ UNCHANGED <<mapVars, rendererVars, rayVars, colorVars, loopVars, loadVars,
                   pressedKeys, move, keyEvents>>

\* the keydown listener of Player.ts (the arrow keys and ShiftRight are
\* handled as KeyA, KeyD, KeyW, KeyS and ShiftLeft are)
KeyDown(code) ==
    /\ keyEvents < MaxKeyEvents
    /\ keyEvents' = keyEvents + 1
    /\ CASE code = "KeyA" ->
              /\ ent.angle > 0 - MaxTurn
              /\ ent' = [ent EXCEPT !.angle = ent.angle - 1]
              /\ move' = move
         [] code = "KeyD" ->
              /\ ent.angle < MaxTurn
              /\ ent' = [ent EXCEPT !.angle = ent.angle + 1]
              /\ move' = move
         [] code = "KeyW" ->
              LET ok == canMoveToCorners(ent, tiles, NewX(ent, 1), NewY(ent, 1))
              IN  ent' = MoveBy(ent, 1, ok) /\ move' = MoveOf(ent, 1, ok)
         [] code = "KeyS" ->
              LET ok == canMoveToCorners(ent, tiles, NewX(ent, 0 - 1), NewY(ent, 0 - 1))
              IN  ent' = MoveBy(ent, 0 - 1, ok) /\ move' = MoveOf(ent, 0 - 1, ok)
         [] code = "ShiftLeft" ->
              /\ ent' = [ent EXCEPT !.speed = ent.sprintSpeed]
              /\ move' = move
         [] OTHER -> UNCHANGED <<ent, move>>
    /\ UNCHANGED <<mapVars, rendererVars, rayVars, colorVars, loopVars, loadVars,
                   pressedKeys>>

\* the keyup listener of Player.ts
KeyUp(code) ==
    /\ keyEvents < MaxKeyEvents
    /\ keyEvents' = keyEvents + 1
    /\ ent' = IF code = "ShiftLeft" THEN [ent EXCEPT !.speed = ent.baseSpeed] ELSE ent
    /\ UNCHANGED <<mapVars, rendererVars, rayVars, colorVars, loopVars, loadVars,
                   pressedKeys, move>>

KeyCodes == {"KeyA", "KeyD", "KeyW", "KeyS", "ShiftLeft", "Space"}

PlayerNext ==
    \/ SetMap
    \/ \E code \in KeyCodes : KeyDown(code)
    \/ \E code \in KeyCodes : KeyUp(code)

\* the keydown listener of part_000: this.pressedKeys.add(e.code)
PressKey(code) ==
    /\ keyEvents < MaxKeyEvents
    /\ keyEvents' = keyEvents + 1
    /\ pressedKeys' = pressedKeys \cup {code}
    /\ UNCHANGED <<mapVars, rendererVars, rayVars, colorVars, loopVars, loadVars,
                   ent, move>>

\* the keyup listener of part_000
ReleaseKey(code) ==
    /\ keyEvents < MaxKeyEvents
    /\ keyEvents' = keyEvents + 1
    /\ pressedKeys' = pressedKeys \ {code}
    /\ ent' = IF code = "ShiftLeft" THEN [ent EXCEPT !.speed = ent.baseSpeed] ELSE ent
    /\ UNCHANGED <<mapVars, rendererVars, rayVars, colorVars, loopVars, loadVars, move>>

\* the setInterval callback of part_000, every 16 ms: forward, backward,
\* turn left, turn right, sprint, in this order, each if its key is held
MovementTick ==
    /\ keyEvents < MaxKeyEvents
    /\ keyEvents' = keyEvents + 1
    /\ LET okW == canMoveToPoints(ent, tiles, NewX(ent, 1), NewY(ent, 1))
           e1 == IF "KeyW" \in pressedKeys THEN MoveBy(ent, 1, okW) ELSE ent
           okS == canMoveToPoints(e1, tiles, NewX(e1, 0 - 1), NewY(e1, 0 - 1))
           e2 == IF "KeyS" \in pressedKeys THEN MoveBy(e1, 0 - 1, okS) ELSE e1
           e3 == IF "KeyA" \in pressedKeys THEN [e2 EXCEPT !.angle = e2.angle - 1] ELSE e2
           e4 == IF "KeyD" \in pressedKeys THEN [e3 EXCEPT !.angle = e3.angle + 1] ELSE e3
           e5 == IF "ShiftLeft" \in pressedKeys
                 THEN [e4 EXCEPT !.speed = e4.sprintSpeed] ELSE e4
       IN  /\ e3.angle >= 0 - MaxTurn
           /\ e4.angle <= MaxTurn
           /\ ent' = e5
           /\ move' = IF "KeyS" \in pressedKeys THEN MoveOf(e1, 0 - 1, okS)
                      ELSE IF "KeyW" \in pressedKeys THEN MoveOf(ent, 1, okW)
                      ELSE move
    /\ UNCHANGED <<mapVars, rendererVars, rayVars, colorVars, loopVars, loadVars,
                   pressedKeys>>

TickPlayerNext ==
    \/ SetMap
    \/ \E code \in KeyCodes : PressKey(code)
    \/ \E code \in KeyCodes : ReleaseKey(code)
    \/ MovementTick

----------------------------------------------------------------------------
(* Specifications *)

\* the map: construction, registration and queries
Init == MapInit /\ RendererIdle /\ ColorIdle /\ LoopIdle /\ LoadIdle /\ EntIdle
Next == MapNext
Spec == Init /\ [][Next]_vars

\* the map with items: construction, registration, addItem and queries
InitMapItems == MapInit /\ RendererIdle /\ ColorIdle /\ LoopIdle /\ LoadIdle /\ EntIdle
SpecMapItems == InitMapItems /\ [][MapItemsNext]_vars

\* one render over a built map
InitRay == RayInit /\ ColorIdle /\ LoopIdle /\ LoadIdle /\ EntIdle
SpecRay == InitRay /\ [][RayNext]_vars

\* colour sampling and fog on a loaded texture store
InitColor == ColorInit /\ LoopIdle /\ LoadIdle /\ EntIdle
SpecColor == InitColor /\ [][ColorNext]_vars

\* the frame loop
InitLoop == MapInit /\ RendererIdle /\ ColorIdle /\ LoopIdle /\ LoadIdle /\ EntIdle
SpecLoop == InitLoop /\ [][LoopNext]_vars

\* the start-up: image loads racing the animation ticks
InitStartup == StartupInit
SpecStartup == InitStartup /\ [][StartupNext]_vars

\* the Player of Player.ts under key events
InitPlayer == PlayerInit /\ RendererIdle /\ ColorIdle /\ LoopIdle /\ LoadIdle
SpecPlayer == InitPlayer /\ [][PlayerNext]_vars

\* the Player of part_000 under key events and movement ticks
InitTickPlayer == TickPlayerInit /\ RendererIdle /\ ColorIdle /\ LoopIdle /\ LoadIdle
SpecTickPlayer == InitTickPlayer /\ [][TickPlayerNext]_vars

----------------------------------------------------------------------------
(* Properties of the map *)

\* (x, y) lies inside the grid t
InGrid(t, x, y) == y \in 0 .. Len(t) - 1 /\ x \in 0 .. Len(t[y + 1]) - 1

\* C1: isSolid(x, y) is true for every integer pair outside the grid,
\* negative coordinates included, and is the isSolid flag of the stored tile
\* for every pair inside it.
C1_IsSolidOutsideOrFlag ==
    q.op = "isSolid" =>
        q.solid = (IF InGrid(tiles, q.x, q.y) THEN tiles[q.y + 1][q.x + 1].isSolid ELSE TRUE)

\* isSolid was asked about a negative column of an existing row and said true
C1_Witness ==
    /\ q.op = "isSolid"
    /\ q.x < 0
    /\ q.y \in 0 .. Len(tiles) - 1
    /\ q.solid

\* C2: after construction, getTile of an in-bounds cell is a tile whose
\* isSolid and texture are those of the definition that was registered for the
\* cell's type code when the grid was built, and the default tile "empty",
\* not solid, for a type code without a definition; no cell is left without
\* a tile.
C2_TilesMatchDefinitions ==
    (q.op = "getTile" /\ InGrid(mapData, q.x, q.y)) =>
        LET code == mapData[q.y + 1][q.x + 1]
        IN  /\ q.tile # Undefined
            /\ IF code \in DOMAIN builtDefs
               THEN /\ q.tile.isSolid = builtDefs[code].isSolid
                    /\ q.tile.texture = builtDefs[code].texture
               ELSE /\ q.tile.name = "empty"
                    /\ q.tile.isSolid = FALSE

\* getTile was asked for a cell with an unregistered type code, in a map that
\* has registered definitions, and returned the tile "empty"
C2_Witness ==
    /\ q.op = "getTile"
    /\ InGrid(mapData, q.x, q.y)
    /\ mapData[q.y + 1][q.x + 1] \notin DOMAIN builtDefs
    /\ DOMAIN builtDefs # {}
    /\ q.tile.name = "empty"

\* C14: a cell whose type code has no registered definition becomes the
\* default tile: type 0, name "empty", not solid, and with its texture field
\* present and holding the name "empty".
C14_DefaultTileNamesTextureEmpty ==
    (q.op = "getTile" /\ InGrid(mapData, q.x, q.y)
       /\ mapData[q.y + 1][q.x + 1] \notin DOMAIN builtDefs)
        => /\ q.tile # Undefined
           /\ q.tile.type = 0
           /\ q.tile.name = "empty"
           /\ q.tile.isSolid = FALSE
           /\ "texture" \in DOMAIN q.tile
           /\ q.tile.texture = "empty"

\* C14 as stated: the default tile is empty, not solid and has no texture
\* field.
C14_Original ==
    (q.op = "getTile" /\ InGrid(mapData, q.x, q.y)
       /\ mapData[q.y + 1][q.x + 1] \notin DOMAIN builtDefs)
        => /\ q.tile.name = "empty"
           /\ q.tile.isSolid = FALSE
           /\ "texture" \notin DOMAIN q.tile

\* getTile returned the tile built for a cell whose code 9 nobody registers
C14_Witness ==
    /\ q.op = "getTile"
    /\ InGrid(mapData, q.x, q.y)
    /\ mapData[q.y + 1][q.x + 1] = 9
    /\ q.tile = DefaultTile

\* C15: once the map is constructed, the grid's dimensions and the tile at
\* every cell never change, whatever registerTileDefinition, addItem and
\* query calls follow; registering a type again after construction alters no
\* tile of the grid.
C15_TilesFixedAfterConstruction ==
    [][mapPc = "built" => tiles' = tiles /\ mapData' = mapData]_vars

\* a type was registered again with another definition after construction,
\* an item was added, and a cell of that type still holds the old tile
C15_Witness ==
    /\ mapPc = "built"
    /\ Len(items) > 0
    /\ \E r \in 1 .. Len(tiles) : \E c \in 1 .. Len(tiles[r]) :
          /\ mapData[r][c] \in DOMAIN tileDefinitions
          /\ mapData[r][c] \in DOMAIN builtDefs
          /\ tileDefinitions[mapData[r][c]] # tiles[r][c]
          /\ tiles[r][c] = builtDefs[mapData[r][c]]

----------------------------------------------------------------------------
(* Properties of castRay *)

\* the grid cell of the sample at distance k of the current ray
CellX(k) == FloorCell(SampleX(player, rayAngle, k), TILE_SIZE)
CellY(k) == FloorCell(SampleY(player, rayAngle, k), TILE_SIZE)

\* the sample at distance k lies in the grid / in a solid tile of the grid
SampleInGrid(k) == InGrid(tiles, CellX(k), CellY(k))
SampleSolid(k) == SampleInGrid(k) /\ tiles[CellY(k) + 1][CellX(k) + 1].isSolid

\* the least whole number of steps that is at least maxDistance
CeilMaxDistance == (MAX_RAY_DISTANCE + DistDen - 1) \div DistDen

\* what castRay returns on a hit: the first solid sample
ReturnsFirstSolidSample ==
    /\ distance >= 1
    /\ SampleSolid(distance)
    /\ hitTile = tiles[CellY(distance) + 1][CellX(distance) + 1]
    /\ hitX = SampleX(player, rayAngle, distance)
    /\ hitY = SampleY(player, rayAngle, distance)
    /\ \A k \in 1 .. distance - 1 : ~SampleSolid(k)

\* C3 (amended): castRay samples distances 1, 2, 3, ... and stops at the first
\* sample that lies in a solid tile, returning that tile, that distance and
\* that sample's hitX / hitY; if none of the samples 1 .. ceil(maxDistance)
\* is solid it returns no tile and distance = ceil(maxDistance), which is
\* maxDistance only when maxDistance is a whole number.
C3_FirstSolidOrCeilMax ==
    renderPc = "column" =>
        IF hitTile # Null
        THEN ReturnsFirstSolidSample
        ELSE /\ distance = CeilMaxDistance
             /\ \A k \in 1 .. distance : ~SampleSolid(k)

\* C3 as stated: ... if no sample up to maxDistance is solid, castRay returns
\* distance = maxDistance and no tile.
C3_Original ==
    renderPc = "column" =>
        /\ hitTile # Null => ReturnsFirstSolidSample
        /\ (\A k \in 1 .. MAX_RAY_DISTANCE \div DistDen : ~SampleSolid(k)) =>
              (hitTile = Null /\ distance * DistDen = MAX_RAY_DISTANCE)

\* a ray over a non-empty grid returned no tile, one step past a maxDistance
\* that is not a whole number
C3_Witness ==
    /\ renderPc = "column"
    /\ Len(tiles) > 0
    /\ hitTile = Null
    /\ distance * DistDen > MAX_RAY_DISTANCE

\* C4 (amended): ray casting treats an out-of-bounds sample as not solid,
\* unlike isSolid: a returned tile always belongs to a cell of the grid, a ray
\* that leaves the grid marches on, and over an empty grid every ray marches
\* to ceil(maxDistance) and returns no tile.
C4_OutOfBoundsIsOpen ==
    renderPc = "column" =>
        /\ hitTile # Null => SampleInGrid(distance)
        /\ \A k \in 1 .. distance : ~SampleInGrid(k) => (k < distance \/ hitTile = Null)
        /\ Len(tiles) = 0 => (hitTile = Null /\ distance = CeilMaxDistance)

\* C4 as stated: a ray stops at its first out-of-bounds sample (over an empty
\* grid: at its first sample).
C4_Original ==
    renderPc = "column" =>
        \A k \in 1 .. distance : ~SampleInGrid(k) => distance = k

\* a ray left a non-empty grid and marched on past the out-of-bounds sample
C4_Witness ==
    /\ renderPc = "column"
    /\ Len(tiles) > 0
    /\ hitTile = Null
    /\ \E k \in 1 .. distance - 1 : ~SampleInGrid(k)

\* the grid is a rectangle whose border cells are all solid and whose
\* interior cells are all open
IsBorderedGrid(t) ==
    /\ Len(t) >= 3
    /\ \A r \in 1 .. Len(t) : Len(t[r]) = Len(t[1])
    /\ Len(t[1]) >= 3
    /\ \A r \in 1 .. Len(t) : \A c \in 1 .. Len(t[1]) :
          t[r][c].isSolid <=> (r \in {1, Len(t)} \/ c \in {1, Len(t[1])})

\* the sample at distance k (the viewer for k = 0) lies in an interior cell
SampleInInterior(k) ==
    /\ CellX(k) \in 1 .. Len(tiles[1]) - 2
    /\ CellY(k) \in 1 .. Len(tiles) - 2

\* the preconditions of C5
Enclosed ==
    /\ IsBorderedGrid(tiles)
    /\ TILE_SIZE >= 1
    /\ MAX_RAY_DISTANCE * MAX_RAY_DISTANCE >
          DistDen * DistDen * TILE_SIZE * TILE_SIZE
              * (Len(tiles) * Len(tiles) + Len(tiles[1]) * Len(tiles[1]))
    /\ FloorCell(player.x * TrigScale, TILE_SIZE) \in 1 .. Len(tiles[1]) - 2
    /\ FloorCell(player.y * TrigScale, TILE_SIZE) \in 1 .. Len(tiles) - 2

\* C5: in a bordered grid with open interior, tileSize >= 1, maxDistance
\* larger than the diagonal and the viewer in an interior cell, every ray
\* returns a tile, no sample up to the returned one lies outside the grid,
\* and the sample before the returned one (or the viewer) is still in the
\* interior: the ray stops at most one step after entering the border.  The
\* 4x4 grid with the viewer at the centre, angle 0 and 10 rays is one of the
\* scenes.
C5_EnclosedRayHits ==
    (renderPc = "column" /\ Enclosed) =>
        /\ hitTile # Null
        /\ \A k \in 1 .. distance : SampleInGrid(k)
        /\ distance >= 1
        /\ SampleInInterior(distance - 1)

\* the last of the 10 rays of the 4x4 scene, viewer at the centre facing
\* angle 0, has returned a tile
C5_Witness ==
    /\ renderPc = "column"
    /\ Enclosed
    /\ Len(tiles) = 4
    /\ TILE_SIZE = 64
    /\ player = [x |-> 128, y |-> 128, angle |-> 0]
    /\ NUM_RAYS = 10
    /\ i = 9
    /\ hitTile # Null

\* C6: during one castRay the distance starts at 0, grows by exactly 1 at
\* each march step, never decreases, and never exceeds maxDistance + 1,
\* also for a maxDistance that is not a whole number.
C6_DistanceSteps ==
    [][ /\ (renderPc # "march" /\ renderPc' = "march") => distance' = 0
        /\ (renderPc = "march" /\ renderPc' = "march") => distance' = distance + 1
        /\ (renderPc = "march" /\ renderPc' = "column") => distance' = distance
        /\ distance' >= 0
        /\ distance' * DistDen <= MAX_RAY_DISTANCE' + DistDen ]_vars

\* a march in progress has passed a maxDistance that is not a whole number
C6_Witness ==
    /\ renderPc = "march"
    /\ distance >= 2
    /\ distance * DistDen > MAX_RAY_DISTANCE
    /\ distance * DistDen < MAX_RAY_DISTANCE + DistDen

----------------------------------------------------------------------------
(* Properties of colour sampling *)

\* the colour a colour string denotes
ColorValue(c) == <<c.r, c.g, c.b>>

\* C7: in getWallColor the fog factor is 0 for distance <= 300, 1 for
\* distance >= 700 and (distance - 300) / 400 in between, whatever
\* maxRayDistance is; the colour returned is the sampled colour for
\* distance <= 300 and the fog colour for distance >= 700.
C7_FogFactor ==
    (call.op = "getWallColor" /\ call.res.sampled) =>
        LET d == call.distance
            n == call.res.fogFactor
        IN  /\ d <= 300 =>
                  (n = 0 /\ ColorValue(call.res.color) = ColorValue(call.res.base))
            /\ d >= 700 =>
                  (n = 400 /\ ColorValue(call.res.color) = ColorValue(DEFAULT_FOG_COLOR))
            /\ (d > 300 /\ d < 700) => n = d - 300

\* a wall pixel at distance 700 got exactly the fog colour, which is not the
\* sampled colour, in a renderer whose maxRayDistance is not the default
C7_Witness ==
    /\ call.op = "getWallColor"
    /\ call.res.sampled
    /\ call.distance = 700
    /\ MAX_RAY_DISTANCE # 1000 * DistDen
    /\ ColorValue(call.res.color) = ColorValue(DEFAULT_FOG_COLOR)
    /\ ColorValue(call.res.base) # ColorValue(DEFAULT_FOG_COLOR)

\* the coordinate of the edge pixel nearest to v in a side of `size` pixels
NearestPixel(v, size) == IF v < 0 THEN 0 ELSE IF v >= size THEN size - 1 ELSE v

\* C8: for a loaded texture and any integers (x, y), getTextureColor computes
\* an index inside the pixel buffer and returns the colour of the pixel
\* nearest to (x, y).
C8_ClampedSampling ==
    (call.op = "getTextureColor" /\ call.res.loaded) =>
        LET t == textureData[call.name]
            ex == NearestPixel(call.x, t.width)
            ey == NearestPixel(call.y, t.height)
        IN  /\ call.res.index >= 0
            /\ call.res.index + 3 < Len(t.data)
            /\ call.res.index = 4 * (ey * t.width + ex)
            /\ ColorValue(call.res.color) = PixelColor(ex, ey)

\* a loaded texture was sampled left of and below its pixels
C8_Witness ==
    /\ call.op = "getTextureColor"
    /\ call.res.loaded
    /\ call.x < 0
    /\ call.y >= textureData[call.name].height
    /\ textureData[call.name].width > 1

----------------------------------------------------------------------------
(* Properties of the frame loop *)

\* C9: a tick calls render at most once; a render sets lastFrame to the time
\* of its tick; two consecutive renders are at least 1000 / FPS ms apart, so
\* a long gap is followed by one render and no catch-up renders.
C9_DropFrameThrottle ==
    [][ /\ renderCount' \in {renderCount, renderCount + 1}
        /\ renderCount' = renderCount + 1 =>
              /\ lastFrame' = now'
              /\ renderCount >= 1 => (now' - renderAt) * FPS >= 1000 * TimeDen ]_vars

\* after a render that followed a long gap, a later tick did not render
C9_Witness ==
    /\ renderCount >= 2
    /\ renderGap >= 250
    /\ now > renderAt
    /\ ~rendered

\* C10 (amended): a tick calls render exactly when more than 1000 / FPS ms
\* have elapsed since the last rendered frame; a tick at exactly 1000 / FPS
\* ms is skipped.
C10_RenderIffOverInterval ==
    tickNo >= 1 => (rendered <=> elapsed * FPS > 1000 * TimeDen)

\* C10 as stated: on every tick with now - lastFrame >= 1000 / FPS, render is
\* called.
C10_Original ==
    (tickNo >= 1 /\ elapsed * FPS >= 1000 * TimeDen) => rendered

\* a tick exactly one frame interval after the last render was skipped
C10_Witness ==
    /\ tickNo >= 1
    /\ renderCount >= 1
    /\ elapsed * FPS = 1000 * TimeDen
    /\ ~rendered

----------------------------------------------------------------------------
(* Properties of the start-up *)

\* C11: the texture of every registered tile definition has been decoded
\* before the first render: no render samples a texture whose load is still
\* pending.
C11_NoRenderSamplesPendingTexture == missed = {}
----------------------------------------------------------------------------
(* Properties of a render call *)

\* C12: a render call, castRay and the column loop included, leaves the
\* viewer's pose, the map's tiles, items, floor and ceiling texture ids and
\* every configuration field of the Renderer unchanged, and carries nothing
\* from one ray or frame to the next: each castRay starts from fresh locals
\* and each frame from column 0 with no wall column.
C12_RenderReadsOnly ==
    [][ /\ player' = player
        /\ tiles' = tiles
        /\ tileDefinitions' = tileDefinitions
        /\ items' = items
        /\ floorTexture' = floorTexture
        /\ ceilingTexture' = ceilingTexture
        /\ rendererVars' = rendererVars
        /\ DEFAULT_FOG_COLOR' = DEFAULT_FOG_COLOR
        /\ (renderPc = "ray" /\ renderPc' = "march"
              => /\ distance' = 0
                 /\ hit' = FALSE
                 /\ hitTile' = Null
                 /\ hitX' = 0
                 /\ hitY' = 0)
        /\ (renderPc \in {"idle", "done"} /\ renderPc' = "ray"
              => i' = 0 /\ wallCols' = {}) ]_vars

\* a second frame begins while castRay's locals of the previous frame linger
C12_Witness ==
    /\ renderPc = "ray"
    /\ i = 0
    /\ distance > 0
    /\ hitTile # Null

\* C13: a column whose ray found no solid tile within the max distance gets
\* no wall pixel, and render goes on to the next column: wall pixels are
\* written in column i only when ray i returned a tile.
C13_NoTileNoWallPixel ==
    (renderPc \in {"ray", "done"} /\ column.i >= 0)
        => /\ column.i = i - 1
           /\ (hitTile = Null => ~column.wall /\ column.i \notin wallCols)
           /\ (column.i \in wallCols => hitTile # Null /\ hitTile.isSolid)

\* a ray ran to the max distance without a hit and its column was passed
\* over, in a frame that drew a wall slab in another column
C13_Witness ==
    /\ renderPc \in {"ray", "done"}
    /\ column.i >= 0
    /\ hitTile = Null
    /\ MAX_RAY_DISTANCE > 0
    /\ distance * DistDen >= MAX_RAY_DISTANCE
    /\ wallCols # {}
\* the steps a render call still has to take: for each ray left, the call of
\* castRay, at most ceil(maxDistance) turns of its loop, its return and the
\* drawing of the column; then the return of render
Rank ==
    LET perRay == CeilMaxDistance + 3
    IN  CASE renderPc = "ray" -> (NUM_RAYS - i) * perRay + 1
          [] renderPc = "march" ->
                (NUM_RAYS - i - 1) * perRay + (CeilMaxDistance - distance) + 3
          [] renderPc = "column" -> (NUM_RAYS - i - 1) * perRay + 2
          [] OTHER -> 0

\* C16: a render call runs to completion for every max ray distance, ray
\* count and canvas height: every step of the call brings it nearer to its
\* return, each castRay loop taking at most ceil(maxDistance) turns whether or
\* not a solid tile is found, and the pixel loop of a wall slab runs over a
\* finite range drawStart .. drawEnd.
C16_RenderTerminates ==
    [][renderPc \notin {"idle", "done"}
         => /\ Rank' < Rank
            /\ Rank' >= 0
            /\ distance' <= CeilMaxDistance
            /\ (column'.wall =>
                  column'.drawEnd - column'.drawStart
                      <= TILE_SIZE * PROJECTION_PLANE_DISTANCE + 1)]_vars

\* a render returned whose last ray took all ceil(maxDistance) turns without
\* finding a solid tile
C16_Witness ==
    /\ renderPc = "done"
    /\ NUM_RAYS > 0
    /\ i = NUM_RAYS
    /\ hitTile = Null
    /\ distance = CeilMaxDistance
    /\ distance > 1

\* C17: the texture column of a wall slab comes from the hit coordinate that
\* is farther from a whole number: the fractional part of hitX when hitX is
\* strictly farther from its nearest integer than hitY is from its own, the
\* fractional part of hitY otherwise, ties included; the column is
\* floor(fraction * tileSize), a whole number in 0 .. tileSize - 1.
C17_TextureColumn ==
    (renderPc \in {"ray", "done"} /\ column.i >= 0 /\ column.wall) =>
        LET D == TrigScale * TILE_SIZE
            fx == hitX % D
            fy == hitY % D
            dx == IF fx < D - fx THEN fx ELSE D - fx
            dy == IF fy < D - fy THEN fy ELSE D - fy
        IN  /\ column.textureX \in 0 .. TILE_SIZE - 1
            /\ column.textureX = IF dx > dy THEN (fx * TILE_SIZE) \div D
                                            ELSE (fy * TILE_SIZE) \div D

\* a slab whose column came from hitX, and is the last column of the texture
C17_Witness ==
    /\ renderPc \in {"ray", "done"}
    /\ column.i >= 0
    /\ column.wall
    /\ TILE_SIZE > 1
    /\ RoundDist(hitX, TILE_SIZE) > RoundDist(hitY, TILE_SIZE)
    /\ column.textureX = TILE_SIZE - 1
\* C21: for every pixel row y of a wall slab (drawStart <= y < drawEnd) the
\* texture row floor(d * tileSize / wallHeight) handed to getWallColor is a
\* whole number at most tileSize - 1 and at least -ceil(tileSize /
\* wallHeight); it is at least 0 for every row but the first, and negative
\* for the first row y = drawStart whenever (canvas height - wallHeight) / 2
\* is not a whole number, so that the first row is sampled through the
\* texture store's clamping.
C21_TextureRow ==
    (renderPc \in {"ray", "done"} /\ column.i >= 0 /\ column.wall) =>
        LET N == WallHeightNum(TILE_SIZE, PROJECTION_PLANE_DISTANCE)
            D == WallHeightDen(distance)
            ceilRatio == (TILE_SIZE * D + N - 1) \div N
        IN  /\ DOMAIN column.textureY = column.drawStart .. column.drawEnd - 1
            /\ \A y \in DOMAIN column.textureY :
                  /\ column.textureY[y] <= TILE_SIZE - 1
                  /\ column.textureY[y] >= 0 - ceilRatio
                  /\ (y > column.drawStart => column.textureY[y] >= 0)
                  /\ (y = column.drawStart /\ (canvasHeight * D - N) % (2 * D) # 0
                        => column.textureY[y] < 0)

\* C21 as stated: every texture row handed to getWallColor lies in
\* 0 .. tileSize - 1.
C21_Original ==
    (renderPc \in {"ray", "done"} /\ column.i >= 0 /\ column.wall) =>
        \A y \in DOMAIN column.textureY : column.textureY[y] \in 0 .. TILE_SIZE - 1

\* a slab was drawn whose first row got a negative texture row and whose
\* last row got the last row of the texture
C21_Witness ==
    /\ renderPc \in {"ray", "done"}
    /\ column.i >= 0
    /\ column.wall
    /\ column.drawStart < column.drawEnd - 1
    /\ distance >= 1
    /\ column.textureY[column.drawStart] < 0
    /\ column.textureY[column.drawEnd - 1] = TILE_SIZE - 1

----------------------------------------------------------------------------
(* Properties of the Player *)

\* the tile that contains the Player's position is solid
InSolidTile == isSolid(tiles, TileOf(ent.x), TileOf(ent.y))

\* C18: for the Player of Player.ts, with a map set, the collision margin
\* smaller than the tile size and the start in a non-solid tile: after any
\* sequence of key events (turn, forward, backward, sprint on and off) the
\* tile containing (x, y) is not solid, and a rejected move leaves x and y
\* as they were.
C18_NeverInSolidTile ==
    /\ COLLISION_MARGIN < PLAYER_TILE_SIZE
    /\ ~InSolidTile
    /\ (move.dir # "none" /\ ~move.accepted) => (ent.x = move.fromX /\ ent.y = move.fromY)

\* a move was rejected at a wall after earlier moves had taken the Player away
\* from where it started
C18_Witness ==
    /\ ent.hasMap
    /\ move.dir # "none"
    /\ ~move.accepted
    /\ \A st \in PlayerStarts : ent.x # st[1] * PosDen \/ ent.y # st[2] * PosDen
\* C19: for the Player of part_000, with a map set and the start in a
\* non-solid tile: after any sequence of movement ticks with any keys held,
\* the tile containing (x, y) is not solid, for forward and backward moves
\* alike.
C19_TickPlayerNeverInSolidTile == ent.hasMap => ~InSolidTile

\* C20: the Player's speed is at every moment the configured base speed or
\* the configured sprint speed: options.baseSpeed (when given) from
\* construction on, the sprint speed while Shift is held, the base speed
\* again after its release.
C20_SpeedIsBaseOrSprint == ent.speed \in {ent.baseSpeed, ent.sprintSpeed}

====
